---- MODULE Spec2Model ----
(***************************************************************************)
(* The agentic RAG workflow of ai-service/agents/rag_agent.py: the         *)
(* LangGraph state machine built by create_rag_graph and driven by         *)
(* RAGAgent.invoke.  One run of invoke is modelled: `state` is the         *)
(* RAGState dict threaded through the nodes, `pc` is the node the graph    *)
(* executes next, and every node together with the conditional edge that   *)
(* follows it is one action.  The three ports (JSON classifier, chat       *)
(* generator, evidence providers) are nondeterministic: every response     *)
(* the code distinguishes is drawn, including a raised exception.          *)
(***************************************************************************)
EXTENDS Integers, Sequences, FiniteSets, TLC

\* ---------------------------------------------------------------- bounds
\* largest max_retries a caller passes to invoke
MaxRetriesBound == 2
\* largest number of records similarity_search returns (at most retrieval_k)
MaxDocs == 2
\* largest number of results the web provider returns (k=3 are asked for)
MaxWeb == 3

\* ------------------------------------------------------- values and ports
\* Python's None
None == "None"
\* response.content that json.loads rejects (json.JSONDecodeError)
Malformed == "<not json>"
\* a JSON object that lacks the key the node reads
Missing == "<no key>"

\* texts the chat model returns; the empty string is a legal (falsy) content
Texts == {"a1", "a2", ""}
\* contents of the router's JSON reply
RouterResponses == {"vectorstore", "web_search", "direct", "other", Missing, Malformed}
\* contents of the relevance grader's JSON reply
GraderResponses == {"yes", "no", Missing, Malformed}
\* contents of the groundedness grader's JSON reply
HallucinationResponses == {"yes", "no", Missing, Malformed}
\* free texts the groundedness grader puts under "explanation"
Explanations == {"e1", "e2"}
\* the question and the user contexts a caller passes
Questions == {"q"}
Contexts == {None, "ctx"}

\* Python truthiness of an Optional[str] value
Truthy(x) == x # None /\ x # ""

\* Python truthiness of a list
NonEmpty(xs) == Len(xs) > 0

\* dict.get(key, default)
Get(d, key, default) == IF key \in DOMAIN d THEN d[key] ELSE default

\* result.get(key) after json.loads succeeded: the parsed value or the default
JsonGet(content, default) == IF content = Missing THEN default ELSE content

\* the Document built from the i-th similarity_search record
RetrievedDoc(i) == [page_content |-> <<"case_study", i>>, metadata |-> [id |-> i]]

\* the Document built from the i-th web result
WebDoc(i) == [page_content |-> <<"web", i>>, metadata |-> [url |-> i, source |-> "web_search"]]

\* whether a Document came from the web provider
IsWebDoc(doc) == "source" \in DOMAIN doc.metadata /\ doc.metadata.source = "web_search"

\* state    the RAGState dict the graph threads through the nodes
\* pc       the node the graph runs next, or END / RETURNED / RAISED
\* result   <<>> until invoke returns, then <<the returned dict>>
\* trace    history: the nodes executed so far, in order
\* lastGen  history: the text of the last completed generate / direct_answer
\* verdicts history: the replies of the groundedness grader, in order
\* web      history: what the web provider did ("not called", "raised",
\*          "returned") and the documents it returned
\* routerReply history: the content of the router's reply (None before route)
\* graded   history: the documents grade_documents was entered with and the
\*          grader's reply for each of them
\* cancelled whether the caller has abandoned the request (no code reads it)
\* search   one call of VectorStore.similarity_search (None outside SearchSpec)
\* research one call of ResearchAgent.research (None outside ResearchSpec)
\* db       one use of the get_db context manager (None outside DbSpec)
VARIABLES state, pc, result, trace, lastGen, verdicts, web, routerReply, graded,
          cancelled, search, research, db

vars == <<state, pc, result, trace, lastGen, verdicts, web, routerReply, graded,
          cancelled, search, research, db>>

\* the variables of the calls made outside the graph, and their value while
\* no such call is modelled
aside == <<search, research, db>>
AsideIdle == search = None /\ research = None /\ db = None

\* initial_state of invoke
initial_state(question, context, max_retries) ==
    [question |-> question,
     context |-> context,
     documents |-> <<>>,
     generation |-> None,
     web_search_needed |-> FALSE,
     retry_count |-> 0,
     max_retries |-> max_retries,
     routing_decision |-> ""]

Init ==
    /\ \E q \in Questions, c \in Contexts, m \in 0..MaxRetriesBound :
           state = initial_state(q, c, m)
    /\ pc = "route"
    /\ result = <<>>
    /\ trace = <<>>
    /\ lastGen = None
    /\ verdicts = <<>>
    /\ web = [outcome |-> "not called", docs |-> <<>>]
    /\ routerReply = None
    /\ graded = [before |-> <<>>, replies |-> <<>>]
    /\ cancelled = FALSE
    /\ AsideIdle

\* ------------------------------------------------------------ node bodies
\* mutant: a reply that is not JSON falls back to the "direct" route
route_question_malformed_direct(s, content) ==
    LET route == IF content = Malformed THEN "direct"
                 ELSE JsonGet(content, "vectorstore")
    IN  [s EXCEPT !.routing_decision = route]

\* mutant: route_question builds a fresh dict that loses the user context
route_question_drops_context(s, content) ==
    LET route == IF content = Malformed THEN "vectorstore"
                 ELSE JsonGet(content, "vectorstore")
    IN  [s EXCEPT !.routing_decision = route, !.context = None]

route_question(s, content) ==
    LET route == IF content = Malformed THEN "vectorstore"
                 ELSE JsonGet(content, "vectorstore")
    IN  [s EXCEPT !.routing_decision = route]

retrieve(s, n) ==
    [s EXCEPT !.documents = [i \in 1..n |-> RetrievedDoc(i)]]

\* mutant: a reply without the "relevant" key also keeps the document
relevant_docs_keeps_unlabelled(documents, responses) ==
    LET F[i \in 0..Len(documents)] ==
            IF i = 0 THEN <<>>
            ELSE IF responses[i] \in {Malformed, Missing, "yes"}
                 THEN Append(F[i-1], documents[i])
                 ELSE F[i-1]
    IN  F[Len(documents)]

\* mutant: a document whose grade does not parse is dropped
relevant_docs_fail_closed(documents, responses) ==
    LET F[i \in 0..Len(documents)] ==
            IF i = 0 THEN <<>>
            ELSE IF responses[i] # Malformed /\ JsonGet(responses[i], None) = "yes"
                 THEN Append(F[i-1], documents[i])
                 ELSE F[i-1]
    IN  F[Len(documents)]

\* mutant: a kept document is put in front of those kept before it
relevant_docs_prepends(documents, responses) ==
    LET F[i \in 0..Len(documents)] ==
            IF i = 0 THEN <<>>
            ELSE IF responses[i] = Malformed \/ JsonGet(responses[i], None) = "yes"
                 THEN <<documents[i]>> \o F[i-1]
                 ELSE F[i-1]
    IN  F[Len(documents)]

\* the loop of grade_documents: a document is kept on "yes" and on a parse failure
relevant_docs(documents, responses) ==
    LET F[i \in 0..Len(documents)] ==
            IF i = 0 THEN <<>>
            ELSE IF responses[i] = Malformed \/ JsonGet(responses[i], None) = "yes"
                 THEN Append(F[i-1], documents[i])
                 ELSE F[i-1]
    IN  F[Len(documents)]

\* mutant: the fallback flag is not raised when nothing survives grading
grade_documents_no_fallback(s, responses) ==
    IF ~NonEmpty(s.documents)
    THEN [s EXCEPT !.web_search_needed = TRUE, !.documents = <<>>]
    ELSE [s EXCEPT !.documents = relevant_docs(s.documents, responses),
                   !.web_search_needed = FALSE]

\* mutant: grading no documents does not ask for the web search
grade_documents_empty_no_flag(s, responses) ==
    IF ~NonEmpty(s.documents)
    THEN [s EXCEPT !.web_search_needed = FALSE, !.documents = <<>>]
    ELSE LET kept == relevant_docs(s.documents, responses)
         IN  [s EXCEPT !.documents = kept, !.web_search_needed = (Len(kept) = 0)]

grade_documents(s, responses) ==
    IF ~NonEmpty(s.documents)
    THEN [s EXCEPT !.web_search_needed = TRUE, !.documents = <<>>]
    ELSE LET kept == relevant_docs(s.documents, responses)
         IN  [s EXCEPT !.documents = kept, !.web_search_needed = (Len(kept) = 0)]

\* mutant: the except branch clears the fallback flag as the success path does
web_search_failed_clears_flag(s) == [s EXCEPT !.web_search_needed = FALSE]

\* web_search when the provider raised: the except branch returns the state
web_search_failed(s) == s

\* mutant: the success path leaves the fallback flag as it found it
web_search_keeps_flag(s, n) ==
    [s EXCEPT !.documents = s.documents \o [i \in 1..n |-> WebDoc(i)]]

\* mutant: the web results replace the documents instead of extending them
web_search_replaces(s, n) ==
    [s EXCEPT !.documents = [i \in 1..n |-> WebDoc(i)],
              !.web_search_needed = FALSE]

\* web_search when the provider returned n results
web_search(s, n) ==
    [s EXCEPT !.documents = s.documents \o [i \in 1..n |-> WebDoc(i)],
              !.web_search_needed = FALSE]

\* mutant: generate starts the retry count afresh
generate_resets_retry_count(s, content) ==
    [s EXCEPT !.generation = content, !.retry_count = 0]

\* mutant: generate builds a fresh dict and loses the routing decision
generate_drops_route(s, content) ==
    [s EXCEPT !.generation = content, !.routing_decision = ""]

generate(s, content) == [s EXCEPT !.generation = content]

\* whether check_hallucination reaches the classifier call
\* mutant: the grader is asked even when there are no documents
calls_grader_ignores_documents(s) == Truthy(s.generation)

calls_grader(s) == NonEmpty(s.documents) /\ Truthy(s.generation)

\* what check_hallucination reads of a parsed reply {"grounded": content,
\* "explanation": explanation}: the "grounded" value alone
grounded_of(content, explanation) == content

\* mutant: a failed check also asks for a web search
check_hallucination_sets_fallback(s, content) ==
    IF ~calls_grader(s) THEN s
    ELSE IF content # Malformed /\ JsonGet(content, None) = "no"
         THEN [s EXCEPT !.retry_count = s.retry_count + 1, !.generation = None,
                        !.web_search_needed = TRUE]
         ELSE s

\* mutant: a reply that does not parse counts as a failed check
check_hallucination_malformed_fails(s, content) ==
    IF ~calls_grader(s) THEN s
    ELSE IF content = Malformed \/ JsonGet(content, None) = "no"
         THEN [s EXCEPT !.retry_count = s.retry_count + 1, !.generation = None]
         ELSE s

\* mutant: a failed check counts the retry twice
check_hallucination_counts_twice(s, content) ==
    IF ~calls_grader(s) THEN s
    ELSE IF content # Malformed /\ JsonGet(content, None) = "no"
         THEN [s EXCEPT !.retry_count = s.retry_count + 2, !.generation = None]
         ELSE s

check_hallucination(s, content) ==
    IF ~calls_grader(s) THEN s
    ELSE IF content # Malformed /\ JsonGet(content, None) = "no"
         THEN [s EXCEPT !.retry_count = s.retry_count + 1, !.generation = None]
         ELSE s

direct_answer(s, content) == [s EXCEPT !.generation = content]

\* ------------------------------------------------------ conditional edges
decide_route(s) ==
    LET routing == Get(s, "routing_decision", "vectorstore")
    IN  IF routing = "direct" THEN "direct"
        ELSE IF routing = "web_search" THEN "web_search"
        ELSE "retrieve"

decide_after_grading(s) ==
    IF Get(s, "web_search_needed", FALSE) THEN "web_search" ELSE "generate"

\* mutant: the retry edge ignores the retry budget
decide_after_generation_no_ceiling(s) ==
    IF Get(s, "generation", None) = None THEN "retry" ELSE "end"

\* mutant: the budget test is off by one
decide_after_generation_off_by_one(s) ==
    IF Get(s, "generation", None) = None
       /\ Get(s, "retry_count", 0) <= Get(s, "max_retries", 3)
    THEN "retry" ELSE "end"

decide_after_generation(s) ==
    LET retry_count == Get(s, "retry_count", 0)
        max_retries == Get(s, "max_retries", 3)
        generation == Get(s, "generation", None)
    IN  IF generation = None /\ retry_count < max_retries THEN "retry" ELSE "end"

\* the edge maps given to add_conditional_edges / add_edge
\* mutant: the "direct" label is wired to generate
RouteEdges_direct_to_generate ==
    [retrieve |-> "retrieve", web_search |-> "web_search", direct |-> "generate"]

\* mutant: the "web_search" label is wired to retrieve
RouteEdges_web_to_retrieve ==
    [retrieve |-> "retrieve", web_search |-> "retrieve", direct |-> "direct_answer"]

RouteEdges == [retrieve |-> "retrieve", web_search |-> "web_search", direct |-> "direct_answer"]
\* mutant: the "generate" label after grading is wired past generate
GradeEdges_skip_generate == [generate |-> "check_hallucination", web_search |-> "web_search"]

GradeEdges == [generate |-> "generate", web_search |-> "web_search"]
\* mutant: a retry fetches the documents again
HallucinationEdges_retry_refetches == [retry |-> "retrieve", end |-> "END"]

HallucinationEdges == [retry |-> "generate", end |-> "END"]
RetrieveEdge == "grade_documents"
WebSearchEdge == "generate"
\* mutant: generate is wired straight to END
GenerateEdge_to_end == "END"

GenerateEdge == "check_hallucination"
DirectAnswerEdge == "END"

\* ---------------------------------------------------------------- actions
\* a node raised: the exception leaves graph.invoke and invoke
Raise(node) ==
    /\ pc' = "RAISED"
    /\ trace' = Append(trace, node)
    /\ UNCHANGED <<state, result, lastGen, verdicts, web, routerReply, graded, cancelled, aside>>

Route ==
    /\ pc = "route"
    /\ \/ Raise("route")
       \/ \E content \in RouterResponses :
            /\ state' = route_question(state, content)
            /\ routerReply' = content
            /\ pc' = RouteEdges[decide_route(state')]
            /\ trace' = Append(trace, "route")
            /\ UNCHANGED <<result, lastGen, verdicts, web, graded, cancelled, aside>>

Retrieve ==
    /\ pc = "retrieve"
    /\ \/ Raise("retrieve")
       \/ \E n \in 0..MaxDocs :
            /\ state' = retrieve(state, n)
            /\ pc' = RetrieveEdge
            /\ trace' = Append(trace, "retrieve")
            /\ UNCHANGED <<result, lastGen, verdicts, web, routerReply, graded, cancelled, aside>>

Grade ==
    /\ pc = "grade_documents"
    /\ \/ /\ NonEmpty(state.documents)
          /\ Raise("grade_documents")
       \/ \E responses \in [1..Len(state.documents) -> GraderResponses] :
            /\ state' = grade_documents(state, responses)
            /\ graded' = [before |-> state.documents, replies |-> responses]
            /\ pc' = GradeEdges[decide_after_grading(state')]
            /\ trace' = Append(trace, "grade_documents")
            /\ UNCHANGED <<result, lastGen, verdicts, web, routerReply, cancelled, aside>>

WebSearch ==
    /\ pc = "web_search"
    /\ \/ /\ state' = web_search_failed(state)
          /\ web' = [outcome |-> "raised", docs |-> <<>>]
       \/ \E n \in 0..MaxWeb :
            /\ state' = web_search(state, n)
            /\ web' = [outcome |-> "returned", docs |-> [i \in 1..n |-> WebDoc(i)]]
    /\ pc' = WebSearchEdge
    /\ trace' = Append(trace, "web_search")
    /\ UNCHANGED <<result, lastGen, verdicts, routerReply, graded, cancelled, aside>>

Generate ==
    /\ pc = "generate"
    /\ \/ Raise("generate")
       \/ \E content \in Texts :
            /\ state' = generate(state, content)
            /\ lastGen' = content
            /\ pc' = GenerateEdge
            /\ trace' = Append(trace, "generate")
            /\ UNCHANGED <<result, verdicts, web, routerReply, graded, cancelled, aside>>

CheckHallucination ==
    /\ pc = "check_hallucination"
    /\ \/ /\ calls_grader(state)
          /\ Raise("check_hallucination")
       \/ /\ calls_grader(state)
          /\ \E content \in HallucinationResponses, explanation \in Explanations :
               /\ state' = check_hallucination(state, grounded_of(content, explanation))
               /\ verdicts' = Append(verdicts, content)
          /\ pc' = HallucinationEdges[decide_after_generation(state')]
          /\ trace' = Append(trace, "check_hallucination")
          /\ UNCHANGED <<result, lastGen, web, routerReply, graded, cancelled, aside>>
       \/ /\ ~calls_grader(state)
          /\ state' = check_hallucination(state, None)
          /\ pc' = HallucinationEdges[decide_after_generation(state')]
          /\ trace' = Append(trace, "check_hallucination")
          /\ UNCHANGED <<result, lastGen, verdicts, web, routerReply, graded, cancelled, aside>>

DirectAnswer ==
    /\ pc = "direct_answer"
    /\ \/ Raise("direct_answer")
       \/ \E content \in Texts :
            /\ state' = direct_answer(state, content)
            /\ lastGen' = content
            /\ pc' = DirectAnswerEdge
            /\ trace' = Append(trace, "direct_answer")
            /\ UNCHANGED <<result, verdicts, web, routerReply, graded, cancelled, aside>>

\* the 200-character preview of a document that invoke returns
source_preview(doc) ==
    [content |-> <<doc.page_content, "...">>, metadata |-> doc.metadata]

\* the dict invoke builds from the final graph state
invoke_result(s) ==
    [answer |-> Get(s, "generation", "I couldn't find a good answer."),
     sources |-> [i \in 1..Len(Get(s, "documents", <<>>)) |->
                     source_preview(Get(s, "documents", <<>>)[i])],
     route |-> Get(s, "routing_decision", "unknown"),
     retries |-> Get(s, "retry_count", 0)]

Return ==
    /\ pc = "END"
    /\ result' = <<invoke_result(state)>>
    /\ pc' = "RETURNED"
    /\ UNCHANGED <<state, trace, lastGen, verdicts, web, routerReply, graded, cancelled, aside>>

Next ==
    \/ Route
    \/ Retrieve
    \/ Grade
    \/ WebSearch
    \/ Generate
    \/ CheckHallucination
    \/ DirectAnswer
    \/ Return

Spec == Init /\ [][Next]_vars

\* every node and the return are steps of one blocking call: a step that can
\* be taken is taken
FairSpec == Spec /\ WF_vars(Next)

\* ------------------------------------------------ the caller gives up
\* The caller of invoke (the /api/chat handler or the MCP tool) abandons the
\* request while the run is under way.  invoke takes no deadline or
\* cancellation argument and no node looks at one, so the run's steps are
\* those of Next.
Cancel ==
    /\ ~cancelled
    /\ pc \notin {"RETURNED", "RAISED"}
    /\ cancelled' = TRUE
    /\ UNCHANGED <<state, pc, result, trace, lastGen, verdicts, web, routerReply, graded, aside>>

CancelNext == Next \/ Cancel

CancelSpec == Init /\ [][CancelNext]_vars

\* ------------------------------------------- grade_documents applied again
\* grade_documents as a function of the state, for a deterministic grader: the
\* node is applied to a state retrieve produced and then to its own result,
\* the grader answering for a document what it answered the first time.

\* how many times grade_documents is applied
MaxGradeRuns == 3

GradeInit ==
    /\ \E q \in Questions, c \in Contexts, m \in 0..MaxRetriesBound,
          content \in RouterResponses, n \in 0..MaxDocs :
           /\ decide_route(route_question(initial_state(q, c, m), content)) = "retrieve"
           /\ state = retrieve(route_question(initial_state(q, c, m), content), n)
           /\ routerReply = content
    /\ pc = "grade_documents"
    /\ result = <<>>
    /\ trace = <<>>
    /\ lastGen = None
    /\ verdicts = <<>>
    /\ web = [outcome |-> "not called", docs |-> <<>>]
    /\ graded = [before |-> <<>>, replies |-> <<>>]
    /\ cancelled = FALSE
    /\ AsideIdle

\* the grader's replies for `docs`, each document getting the reply it got in
\* the first application
same_replies(docs) ==
    [j \in 1..Len(docs) |->
        graded.replies[CHOOSE i \in 1..Len(graded.before) : graded.before[i] = docs[j]]]

GradeFirst ==
    /\ pc = "grade_documents"
    /\ trace = <<>>
    /\ \E responses \in [1..Len(state.documents) -> GraderResponses] :
         /\ state' = grade_documents(state, responses)
         /\ graded' = [before |-> state.documents, replies |-> responses]
    /\ trace' = Append(trace, "grade_documents")
    /\ UNCHANGED <<pc, result, lastGen, verdicts, web, routerReply, cancelled, aside>>

GradeAgain ==
    /\ pc = "grade_documents"
    /\ trace # <<>>
    /\ Len(trace) < MaxGradeRuns
    /\ state' = grade_documents(state, same_replies(state.documents))
    /\ trace' = Append(trace, "grade_documents")
    /\ UNCHANGED <<pc, result, lastGen, verdicts, web, routerReply, graded, cancelled, aside>>

GradeNext == GradeFirst \/ GradeAgain

GradeSpec == GradeInit /\ [][GradeNext]_vars

\* ------------------------------------------- web_search as a node function
\* web_search applied to a RAGState that may already hold retrieved documents
\* and may have either value of web_search_needed.
WebInit ==
    /\ \E q \in Questions, c \in Contexts, m \in 0..MaxRetriesBound,
          content \in RouterResponses, n \in 0..MaxDocs, needed \in BOOLEAN :
           /\ state = [retrieve(route_question(initial_state(q, c, m), content), n)
                          EXCEPT !.web_search_needed = needed]
           /\ routerReply = content
    /\ pc = "web_search"
    /\ result = <<>>
    /\ trace = <<>>
    /\ lastGen = None
    /\ verdicts = <<>>
    /\ web = [outcome |-> "not called", docs |-> <<>>]
    /\ graded = [before |-> <<>>, replies |-> <<>>]
    /\ cancelled = FALSE
    /\ AsideIdle

WebNext == WebSearch

WebSpec == WebInit /\ [][WebNext]_vars

\* ------------------------------------ VectorStore.similarity_search
\* One call of similarity_search on a case_studies table, made directly with
\* any k and filters, or by retrieve with the filters it builds from the
\* user context.  Distances and similarities are in tenths.

\* the most rows in the table, and the largest k of a direct call
MaxRows == 2
MaxK == 2
\* RAG_CONFIG["retrieval_k"] and RAG_CONFIG["similarity_threshold"] (in tenths)
retrieval_k == 5
similarity_threshold == 7

Industries == {"architecture", "law"}
StrategyTypes == {"partnerships", "content_marketing"}
\* cosine distances of the rows from the query: similarity 0.9, 0.8, 0.7, 0.6
Distances == {1, 2, 3, 4}

\* the rows a table can hold
TableRows(n) ==
    [1..n -> [industry : Industries, strategy_type : StrategyTypes, distance : Distances]]

\* the table as a set of rows, the key being the row's id
table_of(f) ==
    {[id |-> i, industry |-> f[i].industry, strategy_type |-> f[i].strategy_type,
      distance |-> f[i].distance] : i \in DOMAIN f}

\* the `filters` argument: None, or a dict given by its items in order
NoFilters == [is_none |-> TRUE, items |-> <<>>]
FilterDict(items) == [is_none |-> FALSE, items |-> items]
FilterArgs ==
    {NoFilters, FilterDict(<<>>)}
    \cup {FilterDict(<<[key |-> "industry", value |-> v]>>) : v \in Industries}
    \cup {FilterDict(<<[key |-> "strategy_type", value |-> v]>>) : v \in StrategyTypes}
    \cup {FilterDict(<<[key |-> "industry", value |-> v],
                       [key |-> "strategy_type", value |-> w]>>) :
             v \in Industries, w \in StrategyTypes}

\* what retrieve finds of the industry in the user context: no context, a
\* context without the key, or the key's value
NoContext == "<no context>"
ContextIndustries == {NoContext, Missing, None, ""} \cup Industries

\* the filters retrieve passes: {"industry": ...} when the context has a truthy
\* industry, else None (filters if filters else None)
retrieve_filters(industry) ==
    LET filters == IF industry \notin {NoContext, Missing} /\ Truthy(industry)
                   THEN <<[key |-> "industry", value |-> industry]>>
                   ELSE <<>>
    IN  IF NonEmpty(filters) THEN FilterDict(filters) ELSE NoFilters

\* 1 - (embedding <=> :embedding)
similarity(row) == 10 - row.distance

\* mutant: a row exactly at the threshold is also returned
where_clause_inclusive(row, threshold, filters) ==
    /\ similarity(row) >= threshold
    /\ (~filters.is_none /\ NonEmpty(filters.items)) =>
          \A i \in 1..Len(filters.items) :
              row[filters.items[i].key] = filters.items[i].value

\* the WHERE clause: above the threshold AND every filter part
where_clause(row, threshold, filters) ==
    /\ similarity(row) > threshold
    /\ (~filters.is_none /\ NonEmpty(filters.items)) =>
          \A i \in 1..Len(filters.items) :
              row[filters.items[i].key] = filters.items[i].value

\* ORDER BY embedding <=> :embedding : the orders the database may return
order_by_distance(rows) ==
    {seq \in [1..Cardinality(rows) -> rows] :
        /\ \A i, j \in DOMAIN seq : i # j => seq[i] # seq[j]
        /\ \A i, j \in DOMAIN seq : i < j => seq[i].distance <= seq[j].distance}

\* LIMIT :k
limit(seq, k) == SubSeq(seq, 1, IF k < Len(seq) THEN k ELSE Len(seq))

\* the dict built from a fetched row
row_dict(row) ==
    [id |-> row.id, industry |-> row.industry, strategy_type |-> row.strategy_type,
     similarity |-> similarity(row)]

SearchInit ==
    /\ \E n \in 0..MaxRows : \E f \in TableRows(n) :
           search = [pc |-> "call", table |-> table_of(f), k |-> 0,
                     threshold |-> 0, filters |-> NoFilters,
                     industry |-> NoContext, rows |-> <<>>]
    /\ state = initial_state("q", None, 0)
    /\ pc = "RETURNED"
    /\ result = <<>>
    /\ trace = <<>>
    /\ lastGen = None
    /\ verdicts = <<>>
    /\ web = [outcome |-> "not called", docs |-> <<>>]
    /\ routerReply = None
    /\ graded = [before |-> <<>>, replies |-> <<>>]
    /\ cancelled = FALSE
    /\ research = None
    /\ db = None

\* similarity_search(embedding, table, k, threshold, filters): the lists of
\* dicts it may return
similarity_search(table, k, threshold, filters) ==
    {[i \in 1..Len(limit(seq, k)) |-> row_dict(limit(seq, k)[i])] :
        seq \in order_by_distance({row \in table : where_clause(row, threshold, filters)})}

\* a caller passes its own k and filters
SearchDirect ==
    /\ search.pc = "call"
    /\ \E k \in 0..MaxK, filters \in FilterArgs :
       \E rows \in similarity_search(search.table, k, similarity_threshold, filters) :
          search' = [search EXCEPT !.pc = "returned", !.k = k,
                        !.threshold = similarity_threshold,
                        !.filters = filters, !.rows = rows]
    /\ UNCHANGED <<state, pc, result, trace, lastGen, verdicts, web, routerReply,
                   graded, cancelled, research, db>>

\* retrieve calls it with the configured k and threshold
SearchFromRetrieve ==
    /\ search.pc = "call"
    /\ \E industry \in ContextIndustries :
       \E rows \in similarity_search(search.table, retrieval_k, similarity_threshold,
                                     retrieve_filters(industry)) :
          search' = [search EXCEPT !.pc = "retrieved", !.k = retrieval_k,
                        !.threshold = similarity_threshold,
                        !.filters = retrieve_filters(industry),
                        !.industry = industry, !.rows = rows]
    /\ UNCHANGED <<state, pc, result, trace, lastGen, verdicts, web, routerReply,
                   graded, cancelled, research, db>>

SearchNext == SearchDirect \/ SearchFromRetrieve

SearchSpec == SearchInit /\ [][SearchNext]_vars

\* ------------------------------------------- ResearchAgent.research
\* One call of research: the search, then one loop iteration per search
\* result.  A URL is the rank of its search result.

\* the most results the search returns, and the largest max_results passed
MaxSearchResults == 3
MaxResultsBound == 2
\* the least confidence research accepts, in tenths
min_confidence == 6

\* what scrape_url does: raises, returns a dict with empty markdown, or markdown
ScrapeOutcomes == {"raised", "", "markdown"}
\* the JSON numbers the parser's reply may give as confidence, and their tenths
ConfidenceNumbers == {"0.5", "0.6", "0.9"}
Tenths(c) == CASE c = "0.5" -> 5 [] c = "0.6" -> 6 [] c = "0.9" -> 9
\* the parser's reply: is_valid_case_study is true, false or missing, or the
\* reply is not JSON; confidence is a number, null or missing
ParseReplies ==
    [valid : {"true", "false", Missing, Malformed},
     confidence : ConfidenceNumbers \cup {None, Missing}]

\* extract_page once the client exists: None when scrape_url raised
extract_page(scrape) == IF scrape = "raised" THEN None ELSE scrape

\* parse_case_study: <<>> for None, else <<the CaseStudyExtract>>
parse_case_study(reply, source_url) ==
    IF reply.valid = Malformed THEN <<>>
    ELSE IF JsonGet(reply.valid, "false") # "true" THEN <<>>
    ELSE <<[source_url |-> source_url,
            confidence |-> JsonGet(reply.confidence, "0.5")]>>

\* mutant: the loop stops only once it holds more than max_results
collected_enough_late(case_studies, max_results) == Len(case_studies) > max_results

\* the loop's break test
collected_enough(case_studies, max_results) == Len(case_studies) >= max_results

ResearchInit ==
    /\ \E m \in 0..MaxResultsBound, exa \in BOOLEAN, firecrawl \in BOOLEAN :
           research = [pc |-> "search", max_results |-> m, exa_client |-> exa,
                       firecrawl_client |-> firecrawl, n |-> 0, i |-> 1,
                       case_studies |-> <<>>, log |-> <<>>]
    /\ state = initial_state("q", None, 0)
    /\ pc = "RETURNED"
    /\ result = <<>>
    /\ trace = <<>>
    /\ lastGen = None
    /\ verdicts = <<>>
    /\ web = [outcome |-> "not called", docs |-> <<>>]
    /\ routerReply = None
    /\ graded = [before |-> <<>>, replies |-> <<>>]
    /\ cancelled = FALSE
    /\ search = None
    /\ db = None

\* step 1: search_case_studies raises without a client, else returns n results;
\* research returns [] when there are none
ResearchSearch ==
    /\ research.pc = "search"
    /\ \/ /\ ~research.exa_client
          /\ research' = [research EXCEPT !.pc = "raised"]
       \/ /\ research.exa_client
          /\ \E n \in 0..MaxSearchResults :
                research' = [research EXCEPT !.n = n,
                                !.pc = IF n = 0 THEN "returned" ELSE "loop"]
    /\ UNCHANGED <<state, pc, result, trace, lastGen, verdicts, web, routerReply,
                   graded, cancelled, search, db>>

\* step 2: one iteration of the loop over search_results
ResearchStep ==
    /\ research.pc = "loop"
    /\ research.i <= research.n
    /\ ~collected_enough(research.case_studies, research.max_results)
    /\ \/ /\ ~research.firecrawl_client
          /\ research' = [research EXCEPT !.pc = "raised"]
       \/ /\ research.firecrawl_client
          /\ \E scrape \in ScrapeOutcomes, reply \in ParseReplies :
                LET content == extract_page(scrape)
                    case_study == parse_case_study(reply, research.i)
                    entry == [url |-> research.i, scrape |-> scrape,
                              reply |-> IF Truthy(content) THEN <<reply>> ELSE <<>>]
                    next == [research EXCEPT !.i = research.i + 1,
                                !.log = Append(research.log, entry)]
                IN  IF ~Truthy(content) \/ case_study = <<>>
                    THEN research' = next
                    ELSE IF case_study[1].confidence \notin ConfidenceNumbers
                    THEN research' = [next EXCEPT !.pc = "raised"]
                    ELSE IF Tenths(case_study[1].confidence) >= min_confidence
                    THEN research' = [next EXCEPT !.case_studies =
                                         Append(research.case_studies, case_study[1])]
                    ELSE research' = next
    /\ UNCHANGED <<state, pc, result, trace, lastGen, verdicts, web, routerReply,
                   graded, cancelled, search, db>>

\* the loop is over (break, or no result left): return case_studies
ResearchReturn ==
    /\ research.pc = "loop"
    /\ \/ research.i > research.n
       \/ collected_enough(research.case_studies, research.max_results)
    /\ research' = [research EXCEPT !.pc = "returned"]
    /\ UNCHANGED <<state, pc, result, trace, lastGen, verdicts, web, routerReply,
                   graded, cancelled, search, db>>

ResearchNext == ResearchSearch \/ ResearchStep \/ ResearchReturn

ResearchSpec == ResearchInit /\ [][ResearchNext]_vars

\* ------------------------------------------------------- get_db
\* Successive uses of `with get_db() as session:`.  For each use the log holds
\* how the body ended, the calls made on the session, whether the commit went
\* through, and what left the with statement.

\* how many uses are followed
MaxUses == 3

\* how the body of the with statement ends: it finishes, raises an exception
\* derived from Exception, or raises one that is not (KeyboardInterrupt,
\* SystemExit, GeneratorExit)
BodyOutcomes == {"finished", "Exception", "BaseException"}

\* mutant: the commit sits in the finally block
get_db_exit_commits_always(body, commit_ok) ==
    IF body = "finished" /\ commit_ok
    THEN [events |-> <<"commit", "close">>, committed |-> TRUE, raised |-> None]
    ELSE IF body = "BaseException"
    THEN [events |-> <<"commit", "close">>, committed |-> TRUE, raised |-> body]
    ELSE [events |-> <<"rollback", "commit", "close">>, committed |-> TRUE,
          raised |-> "Exception"]

\* get_db after the yield: commit when the body finished; rollback and re-raise
\* under `except Exception` (which also catches a failing commit); close in
\* the finally block
get_db_exit(body, commit_ok) ==
    IF body = "finished" /\ commit_ok
    THEN [events |-> <<"commit", "close">>, committed |-> TRUE, raised |-> None]
    ELSE IF body = "finished"
    THEN [events |-> <<"commit", "rollback", "close">>, committed |-> FALSE,
          raised |-> "Exception"]
    ELSE IF body = "Exception"
    THEN [events |-> <<"rollback", "close">>, committed |-> FALSE, raised |-> body]
    ELSE [events |-> <<"close">>, committed |-> FALSE, raised |-> body]

DbInit ==
    /\ db = [pc |-> "idle", body |-> None, log |-> <<>>]
    /\ state = initial_state("q", None, 0)
    /\ pc = "RETURNED"
    /\ result = <<>>
    /\ trace = <<>>
    /\ lastGen = None
    /\ verdicts = <<>>
    /\ web = [outcome |-> "not called", docs |-> <<>>]
    /\ routerReply = None
    /\ graded = [before |-> <<>>, replies |-> <<>>]
    /\ cancelled = FALSE
    /\ search = None
    /\ research = None

\* get_db up to the yield: the session is created and handed to the body
DbEnter ==
    /\ db.pc = "idle"
    /\ Len(db.log) < MaxUses
    /\ db' = [db EXCEPT !.pc = "body", !.body = None]
    /\ UNCHANGED <<state, pc, result, trace, lastGen, verdicts, web, routerReply,
                   graded, cancelled, search, research>>

\* the body of the with statement runs to its end or raises
DbBody ==
    /\ db.pc = "body"
    /\ \E body \in BodyOutcomes : db' = [db EXCEPT !.pc = "exit", !.body = body]
    /\ UNCHANGED <<state, pc, result, trace, lastGen, verdicts, web, routerReply,
                   graded, cancelled, search, research>>

\* get_db from the yield to its end
DbExit ==
    /\ db.pc = "exit"
    /\ \E commit_ok \in BOOLEAN :
          LET out == get_db_exit(db.body, commit_ok)
          IN  db' = [db EXCEPT !.pc = "idle",
                        !.log = Append(db.log,
                                   [body |-> db.body, events |-> out.events,
                                    committed |-> out.committed,
                                    raised |-> out.raised])]
    /\ UNCHANGED <<state, pc, result, trace, lastGen, verdicts, web, routerReply,
                   graded, cancelled, search, research>>

DbNext == DbEnter \/ DbBody \/ DbExit

DbSpec == DbInit /\ [][DbNext]_vars

\* --------------------------------------------- two runs on one RAGAgent
\* Two invoke calls on the same RAGAgent (the singleton of get_rag_agent) and
\* the same compiled graph, interleaved at node boundaries.  Here `state`, `pc`,
\* `result` and `trace` hold one value per run; the other variables are unused.

\* the runs
Runs == {"A", "B"}
\* bounds of the two-run model
ConcMaxRetries == 1
ConcMaxDocs == 1
ConcMaxWeb == 1

\* the question each caller passes
conc_question(r) == <<"q", r>>

\* the nodes of the graph
Nodes == {"route", "retrieve", "grade_documents", "web_search", "generate",
          "check_hallucination", "direct_answer"}

\* what the port called by `node` can return in state s (for web_search, -1
\* stands for the provider raising, which the node catches)
NodeReplies(s, node) ==
    CASE node = "route" -> RouterResponses
      [] node = "retrieve" -> 0..ConcMaxDocs
      [] node = "grade_documents" -> [1..Len(s.documents) -> GraderResponses]
      [] node = "web_search" -> (-1)..ConcMaxWeb
      [] node = "generate" -> Texts
      [] node = "check_hallucination" ->
            IF calls_grader(s) THEN HallucinationResponses ELSE {None}
      [] node = "direct_answer" -> Texts

\* whether `node` makes a port call whose exception leaves the graph
CanRaise(s, node) ==
    \/ node \in {"route", "retrieve", "generate", "direct_answer"}
    \/ node = "grade_documents" /\ NonEmpty(s.documents)
    \/ node = "check_hallucination" /\ calls_grader(s)

\* one node and the edge after it, as a function of the run's own state and the
\* port's reply
node_step(s, node, reply) ==
    CASE node = "route" ->
            LET s2 == route_question(s, reply)
            IN  [state |-> s2, pc |-> RouteEdges[decide_route(s2)]]
      [] node = "retrieve" ->
            [state |-> retrieve(s, reply), pc |-> RetrieveEdge]
      [] node = "grade_documents" ->
            LET s2 == grade_documents(s, reply)
            IN  [state |-> s2, pc |-> GradeEdges[decide_after_grading(s2)]]
      [] node = "web_search" ->
            [state |-> IF reply < 0 THEN web_search_failed(s) ELSE web_search(s, reply),
             pc |-> WebSearchEdge]
      [] node = "generate" ->
            [state |-> generate(s, reply), pc |-> GenerateEdge]
      [] node = "check_hallucination" ->
            LET s2 == check_hallucination(s, reply)
            IN  [state |-> s2, pc |-> HallucinationEdges[decide_after_generation(s2)]]
      [] node = "direct_answer" ->
            [state |-> direct_answer(s, reply), pc |-> DirectAnswerEdge]

\* mutant: the graph state is kept in one place shared by every run
conc_write_shared(states, r, s) == [q \in DOMAIN states |-> s]

\* a node of run r returns its new state: each invoke threads its own dict
conc_write(states, r, s) == [states EXCEPT ![r] = s]

ConcInit ==
    /\ \E m \in [Runs -> 0..ConcMaxRetries] :
           state = [r \in Runs |-> initial_state(conc_question(r), None, m[r])]
    /\ pc = [r \in Runs |-> "route"]
    /\ result = [r \in Runs |-> <<>>]
    /\ trace = [r \in Runs |-> <<>>]
    /\ lastGen = None
    /\ verdicts = <<>>
    /\ web = [outcome |-> "not called", docs |-> <<>>]
    /\ routerReply = None
    /\ graded = [before |-> <<>>, replies |-> <<>>]
    /\ cancelled = FALSE
    /\ AsideIdle

ConcStep(r) ==
    /\ pc[r] \in Nodes
    /\ \E reply \in NodeReplies(state[r], pc[r]) :
         LET nx == node_step(state[r], pc[r], reply)
         IN  /\ state' = conc_write(state, r, nx.state)
             /\ pc' = [pc EXCEPT ![r] = nx.pc]
    /\ trace' = [trace EXCEPT ![r] = Append(@, pc[r])]
    /\ UNCHANGED <<result, lastGen, verdicts, web, routerReply, graded, cancelled, aside>>

ConcRaise(r) ==
    /\ pc[r] \in Nodes
    /\ CanRaise(state[r], pc[r])
    /\ pc' = [pc EXCEPT ![r] = "RAISED"]
    /\ trace' = [trace EXCEPT ![r] = Append(@, pc[r])]
    /\ UNCHANGED <<state, result, lastGen, verdicts, web, routerReply, graded, cancelled, aside>>

ConcReturn(r) ==
    /\ pc[r] = "END"
    /\ result' = [result EXCEPT ![r] = <<invoke_result(state[r])>>]
    /\ pc' = [pc EXCEPT ![r] = "RETURNED"]
    /\ UNCHANGED <<state, trace, lastGen, verdicts, web, routerReply, graded, cancelled, aside>>

ConcNext == \E r \in Runs : ConcStep(r) \/ ConcRaise(r) \/ ConcReturn(r)

ConcSpec == ConcInit /\ [][ConcNext]_vars

\* ------------------------------------------------------- history helpers
Last(seq) == seq[Len(seq)]

\* how often a node occurs in the trace
Count(node) == Cardinality({i \in 1..Len(trace) : trace[i] = node})

Returned == pc = "RETURNED"
Terminated == pc \in {"RETURNED", "RAISED"}

\* the groundedness replies that make check_hallucination clear the answer
FailedChecks == {i \in 1..Len(verdicts) : verdicts[i] = "no"}

\* ------------------------------------------------------------------ claims

\* C1: every run that completes (the graph reached END and invoke returned)
\* returns an answer that is not null.
C1_ReturnedAnswerNotNull ==
    Returned => result[1].answer # None

\* C2: in every reachable state 0 <= retry_count <= max_retries, for every
\* max_retries >= 0.
C2_RetryCountWithinBudget ==
    0 <= state.retry_count /\ state.retry_count <= state.max_retries

\* C3: the check_hallucination -> generate retry edge is never taken in a state
\* with retry_count >= max_retries, and every run eventually terminates
\* (invoke returns or raises).
C3_RetryEdgeBoundedAndTerminates ==
    /\ [][(pc = "check_hallucination" /\ pc' = "generate")
            => state'.retry_count < state'.max_retries]_vars
    /\ <>Terminated

\* C3 witness: a run that took the retry edge and then returned.
C3_Witness ==
    Returned /\ Count("generate") >= 2 /\ state.retry_count >= 1

\* C4: with non-empty evidence and every groundedness check answering "not
\* grounded", a run with max_retries = N >= 1 ends right after the N-th failed
\* check with retry_count = N and returns the text of the last generate.
C4_ExhaustedRunReturnsLastAnswer ==
    (/\ Returned
     /\ state.max_retries >= 1
     /\ NonEmpty(state.documents)
     /\ Len(verdicts) >= 1
     /\ \A i \in 1..Len(verdicts) : verdicts[i] = "no")
    => (/\ state.retry_count = state.max_retries
        /\ Cardinality(FailedChecks) = state.max_retries
        /\ Last(trace) = "check_hallucination"
        /\ result[1].answer = lastGen)

\* C5: when Route decides "direct" only route and direct_answer execute, and the
\* run ends with empty evidence, retry_count = 0, route = "direct" and the
\* direct_answer text as answer.
C5_DirectRunsOnlyDirectAnswer ==
    state.routing_decision = "direct" =>
        /\ trace \in {<<"route">>, <<"route", "direct_answer">>}
        /\ state.documents = <<>>
        /\ state.retry_count = 0
        /\ pc \in {"direct_answer", "END", "RETURNED", "RAISED"}
        /\ pc \in {"END", "RETURNED"} =>
               trace = <<"route", "direct_answer">> /\ state.generation = lastGen
        /\ Returned =>
               /\ result[1].answer = lastGen
               /\ result[1].route = "direct"
               /\ result[1].retries = 0
               /\ result[1].sources = <<>>

\* C5 witness: a direct run that returned its answer.
C5_Witness ==
    Returned /\ state.routing_decision = "direct" /\ result[1].answer = "a1"

\* Grade kept zero documents and the graph went on to web_search
GradedEmptyThenWeb ==
    \E i \in 1..Len(trace) - 1 :
        trace[i] = "grade_documents" /\ trace[i + 1] = "web_search"

\* the state right after a completed grade_documents that kept nothing
JustGradedEmpty ==
    /\ trace # <<>>
    /\ Last(trace) = "grade_documents"
    /\ pc # "RAISED"
    /\ state.documents = <<>>

\* C6 as stated: if Grade keeps zero documents, needs_web_fallback becomes true,
\* web_search is the next node, and for every outcome of the web provider
\* generate is afterwards never entered with empty evidence, which consists of
\* web-origin documents.
C6_NeverEmptyGenerateAfterFallback ==
    /\ JustGradedEmpty => state.web_search_needed /\ pc = "web_search"
    /\ (pc = "generate" /\ GradedEmptyThenWeb) =>
           /\ NonEmpty(state.documents)
           /\ \A i \in 1..Len(state.documents) : IsWebDoc(state.documents[i])

\* C6 amended: if Grade keeps zero documents, needs_web_fallback becomes true and
\* web_search is the next node; the evidence generate then sees is exactly the
\* web-origin documents the provider returned, so it is non-empty when the
\* provider returned a result and empty when the provider raised or returned
\* nothing.
C6_FallbackEvidenceIsWhatProviderReturned ==
    /\ JustGradedEmpty => state.web_search_needed /\ pc = "web_search"
    /\ (pc = "generate" /\ GradedEmptyThenWeb) =>
           /\ state.documents = web.docs
           /\ \A i \in 1..Len(state.documents) : IsWebDoc(state.documents[i])
           /\ web.outcome = "raised" => state.documents = <<>>
           /\ web.outcome \in {"raised", "returned"}

\* C6 witness: Grade kept nothing, the provider returned documents, generate is
\* about to run on them.
C6_Witness ==
    pc = "generate" /\ GradedEmptyThenWeb /\ Len(state.documents) >= 1

\* the edges of the compiled graph
GraphEdges ==
    {<<"route", "retrieve">>, <<"route", "web_search">>, <<"route", "direct_answer">>,
     <<"retrieve", "grade_documents">>,
     <<"grade_documents", "generate">>, <<"grade_documents", "web_search">>,
     <<"web_search", "generate">>,
     <<"generate", "check_hallucination">>,
     <<"check_hallucination", "generate">>, <<"check_hallucination", "END">>,
     <<"direct_answer", "END">>}

\* C7: the executed nodes follow only the edges start -> route; route ->
\* retrieve | web_search | direct_answer; retrieve -> grade_documents;
\* grade_documents -> generate | web_search; web_search -> generate; generate ->
\* check_hallucination; check_hallucination -> generate | END; direct_answer ->
\* END.
C7_OnlyGraphEdges ==
    /\ trace = <<>> => pc = "route"
    /\ trace # <<>> => trace[1] = "route"
    /\ \A i \in 1..Len(trace) - 1 : <<trace[i], trace[i + 1]>> \in GraphEdges
    /\ (trace # <<>> /\ pc \notin {"RAISED", "RETURNED"}) =>
           <<Last(trace), pc>> \in GraphEdges
    /\ Returned => <<Last(trace), "END">> \in GraphEdges

\* C7 witness: a returned run that went through every node but direct_answer,
\* the retry edge included.
C7_Witness ==
    /\ Returned
    /\ GradedEmptyThenWeb
    /\ Count("generate") >= 2

\* C8: a fault raised after an answer-producing node has run is not propagated
\* to the caller (a marker answer is returned instead); only a fault before any
\* answer-producing node has run propagates.
C8_FaultAfterAnswerNotPropagated ==
    pc = "RAISED" => lastGen = None

\* C9: a Generator failure during a regeneration does not fail the run, which
\* returns the last successfully generated answer; the failure is fatal only on
\* the very first generation attempt.
C9_RegenerationFailureNotFatal ==
    (pc = "RAISED" /\ Last(trace) = "generate") => Count("generate") = 1

\* C10: route executes exactly once per run, first, and after it has executed no
\* later node changes routing_decision, retries included.
C10_RouteDecidedOnce ==
    /\ [](trace # <<>> => trace[1] = "route" /\ Count("route") = 1)
    /\ [][pc # "route" => state'.routing_decision = state.routing_decision]_vars

\* C10 witness: a run that regenerated at least once and returned the route it
\* chose.
C10_Witness ==
    /\ Returned
    /\ Count("generate") >= 2
    /\ result[1].route = "vectorstore"

\* the three route labels of RAGState.routing_decision
RouteLabels == {"vectorstore", "web_search", "direct"}

\* route has run to completion
RouteCompleted == routerReply # None

\* C11: for every classifier response (known label, unknown or missing label,
\* unparseable) the route stored in the state after Route and returned to the
\* caller is one of vectorstore, web_search, direct.
C11_RouteIsOneOfThreeLabels ==
    /\ RouteCompleted => state.routing_decision \in RouteLabels
    /\ Returned => result[1].route \in RouteLabels

\* C12: when the router's reply cannot be parsed, route is set to "vectorstore"
\* and the next node executed is retrieve, never web_search or direct_answer.
C12_MalformedRouteDefaultsToRetrieve ==
    routerReply = Malformed =>
        /\ state.routing_decision = "vectorstore"
        /\ Len(trace) = 1 => pc = "retrieve"
        /\ Len(trace) >= 2 => trace[2] = "retrieve"

\* C12 witness: an unparseable router reply, after which retrieve has run.
C12_Witness ==
    routerReply = Malformed /\ Len(trace) >= 2 /\ trace[2] = "retrieve"

\* the state right after a completed grade_documents
JustGraded ==
    /\ trace # <<>>
    /\ Last(trace) = "grade_documents"
    /\ pc # "RAISED"

\* the documents of the state are drawn from those Grade was entered with
\* whose reply is in `replies`
KeptOnlyWith(replies) ==
    \A j \in 1..Len(state.documents) :
        \E i \in 1..Len(graded.before) :
            graded.before[i] = state.documents[j] /\ graded.replies[i] \in replies

\* every document Grade was entered with whose reply is outside `replies` is gone
RemovedUnless(replies) ==
    \A i \in 1..Len(graded.before) :
        graded.replies[i] \notin replies =>
            \A j \in 1..Len(state.documents) : state.documents[j] # graded.before[i]

\* C13 as stated: right after Grade the evidence holds only documents that were
\* there before and were judged relevant ("yes"), every document whose parsed
\* verdict is not "yes" is removed, and needs_web_fallback is true iff the
\* resulting evidence is empty.
C13_GradeKeepsOnlyYes ==
    JustGraded =>
        /\ KeptOnlyWith({"yes"})
        /\ RemovedUnless({"yes", Malformed})
        /\ state.web_search_needed <=> state.documents = <<>>

\* C13 amended: right after Grade the evidence holds exactly the documents that
\* were there before and were judged "yes" or whose verdict could not be parsed;
\* every document whose parsed verdict is not "yes" is removed; and
\* needs_web_fallback is true iff the resulting evidence is empty.
C13_GradeKeepsYesAndUnparsed ==
    JustGraded =>
        /\ KeptOnlyWith({"yes", Malformed})
        /\ RemovedUnless({"yes", Malformed})
        /\ \A i \in 1..Len(graded.before) :
               graded.replies[i] \in {"yes", Malformed} =>
                   \E j \in 1..Len(state.documents) :
                       state.documents[j] = graded.before[i]
        /\ state.web_search_needed <=> state.documents = <<>>

\* C13 witness: Grade dropped one document on a parsed "no" and kept another one
\* whose verdict could not be parsed.
C13_Witness ==
    /\ JustGraded
    /\ Len(graded.before) = 2
    /\ graded.replies = <<"no", Malformed>>
    /\ state.documents = <<graded.before[2]>>

\* C14: for a deterministic classifier Grade is idempotent: applied to evidence
\* whose every document is judged relevant it returns the same documents in the
\* same order with needs_web_fallback = false, and applying Grade to the result
\* of Grade changes nothing.
C14_GradeIdempotent ==
    /\ [][trace # <<>> => state' = state]_vars
    /\ []((/\ trace # <<>>
           /\ graded.before # <<>>
           /\ \A i \in 1..Len(graded.replies) : graded.replies[i] = "yes")
          => (state.documents = graded.before /\ ~state.web_search_needed))

\* C14 witness: Grade kept one of two documents and has been applied again to
\* its own result.
C14_Witness ==
    /\ Len(trace) >= 2
    /\ Len(graded.before) = 2
    /\ Len(state.documents) = 1

\* the last check_hallucination left the answer in place (it passed, could not
\* be parsed, or was skipped)
LastCheckPassed ==
    /\ Count("check_hallucination") >= 1
    /\ state.generation # None

\* Grade kept documents and the graph went straight on to generate
GradedThenGenerate ==
    \E i \in 1..Len(trace) - 1 :
        trace[i] = "grade_documents" /\ trace[i + 1] = "generate"

\* the previews invoke returns for a list of documents
Previews(docs) == [i \in 1..Len(docs) |-> source_preview(docs[i])]

\* C15: on every completed run the returned retries equals the number of
\* groundedness checks that answered "not grounded", and when the last check
\* passes the returned answer is the output of the most recent generate; a
\* first-try pass gives retries = 0 with the graded evidence returned unchanged;
\* zero graded documents, 3 appended web documents, one failed check and then a
\* pass give retries = 1.
C15_RetriesCountFailedChecks ==
    Returned =>
        /\ result[1].retries = Cardinality(FailedChecks)
        /\ LastCheckPassed => result[1].answer = lastGen
        /\ (GradedThenGenerate /\ Len(verdicts) = 1 /\ verdicts[1] = "yes") =>
               /\ result[1].retries = 0
               /\ result[1].sources =
                      Previews(relevant_docs(graded.before, graded.replies))
        /\ (GradedEmptyThenWeb /\ Len(web.docs) = 3 /\ verdicts = <<"no", "yes">>) =>
               /\ result[1].retries = 1
               /\ result[1].sources = Previews(web.docs)
               /\ result[1].answer = lastGen

\* C15 witness: Grade kept nothing, the provider returned 3 documents, the first
\* check failed, the second passed and the run returned with retries = 1.
C15_Witness ==
    /\ Returned
    /\ GradedEmptyThenWeb
    /\ Len(web.docs) = 3
    /\ verdicts = <<"no", "yes">>
    /\ result[1].retries = 1
    /\ result[1].answer = "a2"

\* run r took a step
RunStepped(r) ==
    state'[r] # state[r] \/ pc'[r] # pc[r] \/ result'[r] # result[r] \/ trace'[r] # trace[r]

\* the step leaves every run but r as it was
OthersUntouched(r) ==
    \A q \in Runs \ {r} :
        state'[q] = state[q] /\ pc'[q] = pc[q] /\ result'[q] = result[q] /\ trace'[q] = trace[q]

\* the step is one that run r can take when it executes alone: it depends on r's
\* own state and on the port's reply only
SoloStep(r) ==
    \/ /\ pc[r] \in Nodes
       /\ \E reply \in NodeReplies(state[r], pc[r]) :
            /\ state'[r] = node_step(state[r], pc[r], reply).state
            /\ pc'[r] = node_step(state[r], pc[r], reply).pc
       /\ result'[r] = result[r]
    \/ /\ pc[r] \in Nodes
       /\ CanRaise(state[r], pc[r])
       /\ pc'[r] = "RAISED"
       /\ state'[r] = state[r]
       /\ result'[r] = result[r]
    \/ /\ pc[r] = "END"
       /\ pc'[r] = "RETURNED"
       /\ state'[r] = state[r]
       /\ result'[r] = <<invoke_result(state[r])>>

DispatchesPort ==
    /\ pc \in Nodes
    /\ pc = "grade_documents" => NonEmpty(state.documents)
    /\ pc = "check_hallucination" => calls_grader(state)

\* C17: once the caller's cancellation is signalled, the engine dispatches no
\* further call to the Classifier, Evidence Source or Generator port for that
\* run.
C17_NoPortCallAfterCancel ==
    [][(cancelled /\ DispatchesPort) => trace' = trace]_vars

\* C18: a web provider failure inside web_search never aborts the run: the
\* exception is caught, the node returns the state unchanged (same evidence,
\* answer, retry_count, route) and generate executes next with whatever evidence
\* already existed, possibly none.
C18_WebFailureLeavesStateAndGoesOn ==
    /\ [][(pc = "web_search" /\ web'.outcome = "raised")
            => (state' = state /\ pc' = "generate")]_vars
    /\ []((web.outcome = "raised" /\ Last(trace) = "web_search") => pc = "generate")

\* C18 witness: the provider raised on the web_search route and generate then
\* ran on empty evidence.
C18_Witness ==
    /\ web.outcome = "raised"
    /\ state.documents = <<>>
    /\ Count("generate") = 1
    /\ Returned

\* C19: retry_count never decreases and only check_hallucination changes it:
\* every other node leaves it unchanged, and each check_hallucination step
\* changes it by 0 or by exactly +1.
C19_RetryCountOnlyVerifyByOne ==
    /\ [][state'.retry_count >= state.retry_count]_vars
    /\ [][pc # "check_hallucination" => state'.retry_count = state.retry_count]_vars
    /\ [][pc = "check_hallucination" =>
            state'.retry_count \in {state.retry_count, state.retry_count + 1}]_vars

\* C19 witness: two failed checks, each followed by a regeneration.
C19_Witness ==
    state.retry_count = 2 /\ Count("generate") = 2 /\ pc = "END"

\* C20: after check_hallucination the graph goes back to generate if and only if
\* the answer is null and retry_count < max_retries; in every other case the run
\* terminates.
C20_RetryIffNullAndBudgetLeft ==
    [][(pc = "check_hallucination" /\ pc' # "RAISED") =>
         /\ pc' \in {"generate", "END"}
         /\ pc' = "generate" <=>
                (state'.generation = None /\ state'.retry_count < state'.max_retries)]_vars

\* C20 witness: a run that went back to generate once and then ended with the
\* answer null because the budget was used up.
C20_Witness ==
    /\ pc = "END"
    /\ Count("generate") = 2
    /\ state.generation = None
    /\ state.retry_count = state.max_retries

\* the step is a check_hallucination that called the grader and got `content`
CheckedWith(content) ==
    /\ pc = "check_hallucination"
    /\ calls_grader(state)
    /\ verdicts' = Append(verdicts, content)

\* the fields of the state other than those in `written` are left as they were
FrameExcept(written) ==
    \A k \in DOMAIN state \ written : state'[k] = state[k]

\* C21: when check_hallucination runs with non-empty evidence and a non-empty
\* answer and the verdict is "not grounded", it increments retry_count by exactly
\* 1 and sets the answer to null, leaving evidence, route, question,
\* user_context, max_retries and needs_web_fallback unchanged; the explanation
\* text has no effect on the resulting state or the next edge.
C21_FailedCheckCountsAndClears ==
    /\ [][CheckedWith("no") =>
            /\ state'.retry_count = state.retry_count + 1
            /\ state'.generation = None
            /\ FrameExcept({"retry_count", "generation"})
            /\ DOMAIN state' = DOMAIN state]_vars
    /\ []((pc = "check_hallucination" /\ calls_grader(state)) =>
            \A content \in HallucinationResponses, e1, e2 \in Explanations :
                LET s1 == check_hallucination(state, grounded_of(content, e1))
                    s2 == check_hallucination(state, grounded_of(content, e2))
                IN  /\ s1 = s2
                    /\ decide_after_generation(s1) = decide_after_generation(s2))

\* C21 witness: a check that failed on non-empty evidence and a non-empty answer.
C21_Witness ==
    /\ Len(verdicts) > 0
    /\ Last(trace) = "check_hallucination"
    /\ Last(verdicts) = "no"
    /\ state.retry_count = 1
    /\ state.generation = None
    /\ Len(state.documents) = 2

\* the step is a check_hallucination entered with no documents or no answer
CheckedNothing ==
    /\ pc = "check_hallucination"
    /\ (state.documents = <<>> \/ state.generation \in {None, ""})

\* C22: when check_hallucination is entered with empty evidence or with no
\* answer, it makes no classifier call and returns the state unchanged; in
\* particular a run whose evidence is empty when generate executes performs
\* exactly one generate and ends with retry_count = 0.
C22_NothingToCheckIsNoCheck ==
    /\ [][CheckedNothing =>
            /\ state' = state
            /\ verdicts' = verdicts
            /\ pc' = "END"]_vars
    /\ []((Count("generate") >= 1 /\ state.documents = <<>>) =>
            /\ Count("generate") = 1
            /\ Count("check_hallucination") <= 1
            /\ verdicts = <<>>
            /\ state.retry_count = 0)

\* C22 witness: a returned run that generated an answer from no evidence with
\* retries allowed.
C22_Witness ==
    /\ Returned
    /\ state.documents = <<>>
    /\ state.max_retries = 2
    /\ state.generation = "a1"
    /\ Count("generate") = 1
    /\ Count("check_hallucination") = 1

\* C23: when the groundedness classifier's output cannot be parsed,
\* check_hallucination mutates nothing and the run terminates with the current
\* answer, exactly as for a "grounded" verdict.
C23_UnparsedVerdictPasses ==
    /\ [][CheckedWith(Malformed) =>
            /\ state' = state
            /\ state' = check_hallucination(state, "yes")
            /\ pc' = "END"]_vars
    /\ []((Returned /\ Len(verdicts) > 0 /\ Last(verdicts) = Malformed) =>
            /\ result[1].answer = lastGen
            /\ result[1].retries = Cardinality(FailedChecks))

\* C23 witness: a returned run whose last groundedness reply did not parse,
\* after an earlier failed check.
C23_Witness ==
    /\ Returned
    /\ verdicts = <<"no", Malformed>>
    /\ result[1].answer = "a2"
    /\ result[1].retries = 1

\* web_search has run and the provider returned
WebReturned == Count("web_search") >= 1 /\ web.outcome = "returned"

\* web_search has run and the provider raised
WebRaised == Count("web_search") >= 1 /\ web.outcome = "raised"

\* C24 as stated: whenever web_search has executed, web_search_needed is false
\* in the state it returns, on the success path and on the provider-failure
\* path; hence web_search_needed is false whenever generate is entered.
C24_FlagClearAfterWebSearch ==
    /\ Count("web_search") >= 1 => ~state.web_search_needed
    /\ pc = "generate" => ~state.web_search_needed

\* C24 amended: web_search_needed is false in the state web_search returns when
\* the provider call succeeded; when the provider failed the flag keeps the
\* value it had, so generate is entered with web_search_needed true exactly
\* when grade_documents kept nothing and the provider then failed.
C24_FlagClearAfterWebSuccess ==
    /\ WebReturned => ~state.web_search_needed
    /\ WebRaised => (state.web_search_needed <=> GradedEmptyThenWeb)
    /\ pc = "generate" =>
          (state.web_search_needed <=> (GradedEmptyThenWeb /\ WebRaised))

\* C24 witness: generate is about to run with the fallback flag still set.
C24_Witness ==
    /\ pc = "generate"
    /\ WebRaised
    /\ state.web_search_needed

\* C25: on success web_search only appends: the documents after it are the
\* documents before it (same documents, same order) followed by the web results
\* in provider order, every appended document has metadata source = web_search
\* and the result's URL, and no earlier document is removed or altered.
C25_WebSearchOnlyAppends ==
    [][(pc = "web_search" /\ web'.outcome = "returned") =>
         LET before == state.documents
             after == state'.documents
         IN  /\ Len(after) = Len(before) + Len(web'.docs)
             /\ \A i \in 1..Len(before) : after[i] = before[i]
             /\ \A i \in 1..Len(web'.docs) :
                    /\ after[Len(before) + i] = web'.docs[i]
                    /\ after[Len(before) + i].metadata.source = "web_search"
                    /\ after[Len(before) + i].metadata.url = i
             /\ \A i \in 1..Len(before) :
                    IsWebDoc(after[i]) = IsWebDoc(before[i])]_vars

\* C25 witness: two retrieved documents followed by three web results.
C25_Witness ==
    /\ WebReturned
    /\ Len(web.docs) = 3
    /\ Len(state.documents) = 5
    /\ ~IsWebDoc(state.documents[2])
    /\ IsWebDoc(state.documents[3])

\* the places in the trace where generate ran
Generations == {i \in 1..Len(trace) : trace[i] = "generate"}

\* C26: from the first entry into generate until the run terminates the
\* documents are never modified: generate and check_hallucination leave them
\* unchanged, every regeneration sees the documents of the first generation,
\* and neither retrieve nor web_search runs again during retries.
C26_EvidenceFixedFromFirstGenerate ==
    /\ [][(pc \in {"generate", "check_hallucination", "END"} \/ Generations # {}) =>
            state'.documents = state.documents]_vars
    /\ [](\A i \in Generations : \A j \in i..Len(trace) :
            trace[j] \in {"generate", "check_hallucination"})

\* C26 witness: a returned run that regenerated once over two documents.
C26_Witness ==
    /\ Returned
    /\ Count("generate") = 2
    /\ verdicts = <<"no", "yes">>
    /\ Len(state.documents) = 2
    /\ Count("retrieve") = 1

\* C27: grade_documents fails open per document: a document whose relevance
\* reply cannot be parsed is kept, whatever the replies for the other
\* documents, so a grade_documents in which at least one reply is unparseable
\* never yields empty documents nor sets web_search_needed.
C27_GradeFailsOpenPerDocument ==
    JustGraded =>
        /\ \A i \in 1..Len(graded.before) :
              graded.replies[i] = Malformed =>
                 \E j \in 1..Len(state.documents) : state.documents[j] = graded.before[i]
        /\ (\E i \in 1..Len(graded.before) : graded.replies[i] = Malformed) =>
              /\ state.documents # <<>>
              /\ ~state.web_search_needed
              /\ pc = "generate"

\* C27 witness: the one unparseable document survives next to a rejected one.
C27_Witness ==
    /\ JustGraded
    /\ Len(graded.before) = 2
    /\ graded.replies = <<"no", Malformed>>
    /\ state.documents = <<graded.before[2]>>

\* the index in the graded input of the j-th kept document
RankOf(j) == CHOOSE i \in 1..Len(graded.before) : graded.before[i] = state.documents[j]

\* C28: grade_documents preserves rank order: the documents after it are a
\* subsequence of the documents before it (kept documents in their original
\* relative order, none duplicated), and whether a document is kept depends
\* only on its own reply, not on the order in which documents are graded.
C28_GradeKeepsRankOrder ==
    JustGraded =>
        /\ \A j \in 1..Len(state.documents) :
              \E i \in 1..Len(graded.before) : graded.before[i] = state.documents[j]
        /\ \A j, k \in 1..Len(state.documents) : j < k => RankOf(j) < RankOf(k)
        /\ \A i \in 1..Len(graded.before) :
              (\E j \in 1..Len(state.documents) : state.documents[j] = graded.before[i])
                 <=> graded.replies[i] \in {"yes", Malformed}

\* C28 witness: both documents kept, first the higher ranked one.
C28_Witness ==
    /\ JustGraded
    /\ graded.replies = <<"yes", "yes">>
    /\ state.documents = graded.before
    /\ state.documents[1].metadata.id = 1

\* C29: an empty retrieval result does not fail the run: retrieve returns no
\* documents, grade_documents then sets web_search_needed = true without any
\* classifier call, and web_search is the next node.
C29_EmptyRetrievalGoesToWeb ==
    [][/\ (pc = "retrieve" /\ pc' # "RAISED" /\ state'.documents = <<>>) =>
            pc' = "grade_documents"
       /\ (pc = "grade_documents" /\ state.documents = <<>>) =>
            /\ state' = [state EXCEPT !.web_search_needed = TRUE]
            /\ graded'.replies = <<>>
            /\ pc' = "web_search"]_vars

\* C29 witness: nothing retrieved, and the run is past grade_documents and
\* web_search.
C29_Witness ==
    /\ trace = <<"route", "retrieve", "grade_documents", "web_search">>
    /\ graded.before = <<>>
    /\ pc = "generate"

\* C30: question, context and max_retries are never modified by any node: in
\* every reachable state of a run they are the values passed to invoke, and
\* route_question changes no field other than routing_decision (the documents
\* stay as they were).
C30_InputsNeverModified ==
    [][/\ state'.question = state.question
       /\ state'.context = state.context
       /\ state'.max_retries = state.max_retries
       /\ pc = "route" =>
            /\ FrameExcept({"routing_decision"})
            /\ state'.documents = <<>>]_vars

\* C30 witness: a returned run with a user context that used both retries.
C30_Witness ==
    /\ Returned
    /\ state.question = "q"
    /\ state.context = "ctx"
    /\ state.max_retries = 2
    /\ state.retry_count = 2
    /\ state.routing_decision = "vectorstore"

\* the greater of two integers
Max(a, b) == IF a >= b THEN a ELSE b

\* route has completed and stored the "web_search" label
OnWebRoute == RouteCompleted /\ state.routing_decision = "web_search"

\* C32: on the web_search route retrieve and grade_documents never execute and
\* web_search_needed is never set to true; web_search executes exactly once,
\* directly after route, so the documents generate sees are all web documents
\* (or none if the provider failed or returned nothing).
C32_WebRouteSkipsRetrieval ==
    OnWebRoute =>
        /\ Count("retrieve") = 0 /\ Count("grade_documents") = 0
        /\ ~state.web_search_needed
        /\ Count("web_search") <= 1
        /\ pc = "web_search" <=> trace = <<"route">>
        /\ Len(trace) >= 2 => (trace[2] = "web_search" /\ Count("web_search") = 1)
        /\ \A i \in 1..Len(state.documents) : IsWebDoc(state.documents[i])
        /\ Len(trace) >= 2 => state.documents = web.docs

\* C32 witness: a returned run on the web_search route with three web sources.
C32_Witness ==
    /\ Returned
    /\ result[1].route = "web_search"
    /\ Len(result[1].sources) = 3
    /\ trace = <<"route", "web_search", "generate", "check_hallucination">>

\* C33: in any run each of route, retrieve, grade_documents, web_search and
\* direct_answer executes at most once; only generate and check_hallucination
\* can execute more than once, and every generate that completed is followed
\* at once by exactly one check_hallucination.
C33_OncePerNodeAndGenerateThenCheck ==
    /\ \A node \in {"route", "retrieve", "grade_documents", "web_search",
                    "direct_answer"} : Count(node) <= 1
    /\ \A i \in 1..Len(trace) :
          /\ (trace[i] = "generate" /\ i < Len(trace)) =>
                trace[i + 1] = "check_hallucination"
          /\ (trace[i] = "check_hallucination" /\ i < Len(trace)) =>
                trace[i + 1] = "generate"
          /\ trace[i] = "check_hallucination" => (i > 1 /\ trace[i - 1] = "generate")
    /\ (trace # <<>> /\ Last(trace) = "generate" /\ pc # "RAISED") =>
          pc = "check_hallucination"

\* C33 witness: generate and check_hallucination both ran twice.
C33_Witness ==
    /\ Returned
    /\ Count("generate") = 2
    /\ Count("check_hallucination") = 2
    /\ Count("grade_documents") = 1

\* C34: the number of generate executions in a run is at most
\* max(1, max_retries): with max_retries = N >= 1 at most N - 1 regenerations
\* follow failed groundedness checks, and with max_retries = 0 exactly one
\* generate executes.
C34_GenerateCountWithinBudget ==
    /\ Count("generate") <= Max(1, state.max_retries)
    /\ state.max_retries >= 1 =>
          /\ Count("generate") - 1 <= state.max_retries - 1
          /\ Count("generate") - 1 <= Cardinality(FailedChecks)
    /\ (Returned /\ Count("direct_answer") = 0 /\ state.max_retries = 0) =>
          Count("generate") = 1

\* C34 witness: with max_retries = 0 a failed check ends the run after the one
\* generate; with max_retries = 2 both generations were used.
C34_Witness ==
    /\ Returned
    /\ \/ state.max_retries = 0 /\ verdicts = <<"no">> /\ Count("generate") = 1
       \/ state.max_retries = 2 /\ verdicts = <<"no", "no">> /\ Count("generate") = 2

\* the rows of the table the call had to return from: similarity strictly
\* above the threshold and equal to every supplied filter value
Matching ==
    {row \in search.table :
        /\ 10 - row.distance > search.threshold
        /\ \A i \in 1..Len(search.filters.items) :
              row[search.filters.items[i].key] = search.filters.items[i].value}

\* the table row a returned dict was built from
RowOf(d) == CHOOSE row \in search.table : row.id = d.id

\* C31: similarity_search returns exactly the records whose similarity is
\* strictly greater than the threshold and that satisfy every supplied equality
\* filter (filters ANDed; no filter when none supplied), ordered by ascending
\* vector distance and truncated to at most k; retrieve supplies an industry
\* filter exactly when the user context has a non-empty industry field.
C31_SearchReturnsTopKMatching ==
    search.pc \in {"returned", "retrieved"} =>
        LET rows == search.rows
            ids == {rows[i].id : i \in 1..Len(rows)}
        IN  /\ \A i \in 1..Len(rows) : \E row \in Matching : row.id = rows[i].id
            /\ \A i, j \in 1..Len(rows) : i < j =>
                   /\ rows[i].id # rows[j].id
                   /\ RowOf(rows[i]).distance <= RowOf(rows[j]).distance
            /\ Len(rows) = (IF Cardinality(Matching) < search.k
                            THEN Cardinality(Matching) ELSE search.k)
            /\ \A row \in Matching : row.id \notin ids =>
                   \A i \in 1..Len(rows) : RowOf(rows[i]).distance <= row.distance
            /\ \A i \in 1..Len(rows) : rows[i].similarity > search.threshold
            /\ search.pc = "retrieved" =>
                   IF search.industry \in Industries
                   THEN search.filters.items =
                            <<[key |-> "industry", value |-> search.industry]>>
                   ELSE search.filters = NoFilters

\* C31 witness: two filters, two rows above the threshold that satisfy both,
\* k = 1, and the nearer row is the one returned.
C31_Witness ==
    /\ search.pc = "returned"
    /\ Len(search.filters.items) = 2
    /\ Cardinality(search.table) = 2
    /\ Cardinality(Matching) = 2
    /\ search.k = 1
    /\ Len(search.rows) = 1
    /\ \E row \in search.table : row.distance > RowOf(search.rows[1]).distance

\* C31 witness for retrieve: a context with an industry filters out one of two
\* near rows.
C31_RetrieveWitness ==
    /\ search.pc = "retrieved"
    /\ search.industry = "law"
    /\ Len(search.rows) = 1
    /\ \A row \in search.table : row.distance = 1

\* a logged loop iteration whose page could not be extracted or whose parse
\* gave no valid case study
Unusable(entry) ==
    \/ entry.scrape \in {"raised", ""}
    \/ entry.reply[1].valid # "true"

\* C35: research returns at most max_results case studies, each with
\* confidence >= 0.6, in the order of the search results they came from; a
\* result whose page extraction fails or whose parse yields no valid case study
\* is skipped without aborting the pipeline, and no further page is extracted
\* once max_results case studies have been collected.
C35_ResearchCollectsInOrder ==
    /\ [](research.pc \in {"loop", "returned"} =>
            LET cs == research.case_studies
            IN  /\ Len(cs) <= research.max_results
                /\ \A j \in 1..Len(cs) :
                      /\ cs[j].confidence \in {"0.6", "0.9"}
                      /\ \E e \in 1..Len(research.log) :
                            /\ research.log[e].url = cs[j].source_url
                            /\ ~Unusable(research.log[e])
                /\ \A j, k \in 1..Len(cs) : j < k => cs[j].source_url < cs[k].source_url
                /\ \A e \in 1..Len(research.log) :
                      /\ research.log[e].url = e
                      /\ Unusable(research.log[e]) =>
                            \A j \in 1..Len(cs) : cs[j].source_url # e)
    /\ [][research'.log # research.log =>
            /\ Len(research.case_studies) < research.max_results
            /\ Unusable(Last(research'.log)) =>
                  /\ research'.pc = "loop"
                  /\ research'.case_studies = research.case_studies
                  /\ research'.i = research.i + 1]_vars

\* C35 witness: three search results, max_results = 2: the first page failed to
\* extract, the second and third gave the two case studies returned.
C35_Witness ==
    /\ research.pc = "returned"
    /\ research.max_results = 2
    /\ Len(research.log) = 3
    /\ research.log[1].scrape = "raised"
    /\ Len(research.case_studies) = 2
    /\ research.case_studies[1].source_url = 2

\* C35 witness: the loop stopped before the last result's page was extracted.
C35_StoppedEarly ==
    /\ research.pc = "returned"
    /\ research.n = 3
    /\ Len(research.log) = 1
    /\ Len(research.case_studies) = 1

\* how often a call occurs among the calls made on a session
Calls(events, call) == Cardinality({i \in 1..Len(events) : events[i] = call})

====
